---- MODULE Spec2Model ----
(***************************************************************************)
(* Model of the crypto dashboard: the CryptoTracker page component         *)
(* (src/app/page.tsx: aggregate ticker stream, price mapping, reconnect    *)
(* timers) and the CryptoChart component (src/unnamed/part_000: history    *)
(* fetch, per-symbol stream, bar sequence).                                *)
(*                                                                         *)
(* Every handler is one action.  Browser objects are modelled by what the  *)
(* handlers can observe of them: a WebSocket by its readyState, a timer by *)
(* being pending with the delay it was armed with, a fetch by being in     *)
(* flight with the arguments its closure captured.                         *)
(***************************************************************************)
EXTENDS Integers, Sequences, FiniteSets, TLC

\* ------------------------------------------------------------------------
\* Bounds of the model
\* ------------------------------------------------------------------------
MaxAttempts == 6
MaxSockets == 2
MaxTimers == 2
MaxMounts == 2
MaxBatch == 2
MaxNow == 1
MaxChartSockets == 2
MaxFetches == 2
MaxLiveBars == 1
MaxUserOps == 2

SocketIds == 1..MaxSockets
TimerIds == 1..MaxTimers
ChartSocketIds == 1..MaxChartSockets
FetchIds == 1..MaxFetches

\* ------------------------------------------------------------------------
\* JavaScript values
\* ------------------------------------------------------------------------
\* A JS number is an integer (fixed-point, see Unit); NaN is a value of its own
\* that no arithmetic of the model produces: it compares unequal to every
\* number, itself included, and is neither greater nor smaller than any.
NaN == 0 - 2147483647
Num(n) == n

\* a missing property of a parsed JSON object
Undefined == "undefined"

\* An optional value: << >> when absent (undefined), <<v>> when present.
None == << >>
Some(v) == <<v>>

\* Numbers are fixed-point with six decimals: Unit is 1.0
Unit == 1000 * 1000

NumericValue ==
  ("-1" :> (0 - Unit)) @@ ("0" :> 0) @@ ("1" :> Unit) @@ ("2" :> 2 * Unit)
    @@ ("3" :> 3 * Unit)

\* Number.parseFloat on a JSON field: the number a numeric string denotes,
\* NaN for undefined and for a string that is no number.
ParseFloat(str) ==
  IF str \in DOMAIN NumericValue THEN Num(NumericValue[str]) ELSE NaN

\* a !== b on JS numbers
StrictNotEqual(a, b) == a = NaN \/ b = NaN \/ a # b
\* a > b on JS numbers
GreaterThan(a, b) == a # NaN /\ b # NaN /\ a > b

Min(a, b) == IF a <= b THEN a ELSE b

RECURSIVE Pow2(_)
Pow2(n) == IF n = 0 THEN 1 ELSE 2 * Pow2(n - 1)

\* ------------------------------------------------------------------------
\* CryptoTracker: constants
\* ------------------------------------------------------------------------
CRYPTO_SYMBOLS == {"BTCUSDT", "ETHUSDT", "ADAUSDT", "SOLUSDT", "DOGEUSDT"}

\* Math.min(1000 * Math.pow(2, attempts), 30000)
BackoffDelay(attempts) == Min(1000 * Pow2(attempts), 30000)

\* Math.min(5000 * (attempts + 1), 30000)
RetryDelay(attempts) == Min(5000 * (attempts + 1), 30000)

DecayDelay == 2000

\* Timestamps are counted in seconds, for the arithmetic on them to stay within
\* 32 bits.  The distance of two placeholder bars (60000 ms), in seconds; the
\* clock of the model advances by it.
PlaceholderStepMs == 60000 \div 1000

\* ------------------------------------------------------------------------
\* Aggregate stream payloads (event.data of "!ticker@arr")
\* ------------------------------------------------------------------------
MsgSymbols == {"BTCUSDT", "ETHUSDT", "XRPUSDT"}
\* <<last price, 24h percent change>> as the exchange sends them, as strings
MsgQuotes == {<<"1", "-1">>, <<"2", "3">>}

TickerElement(s, c, P) == [kind |-> "object", s |-> s, c |-> c, P |-> P]
\* the JSON value null inside the array
NullElement == [kind |-> "null", s |-> Undefined, c |-> Undefined, P |-> Undefined]
\* the JSON value {} inside the array
EmptyElement == TickerElement(Undefined, Undefined, Undefined)

Elements ==
  {TickerElement(s, q[1], q[2]) : s \in MsgSymbols, q \in MsgQuotes}
    \cup {NullElement, EmptyElement}

Batches == UNION {[1..n -> Elements] : n \in 0..MaxBatch}

\* event.data: text that is no JSON, a JSON object, or a JSON array
Payloads ==
  {[kind |-> "invalid", items |-> << >>], [kind |-> "object", items |-> << >>]}
    \cup {[kind |-> "array", items |-> b] : b \in Batches}

\* ------------------------------------------------------------------------
\* State
\* ------------------------------------------------------------------------
VARIABLES
  prices,               \* useState: symbol -> CryptoPrice, keys as they were set
  isConnected,          \* useState
  connectionAttempts,   \* useState
  isLoading,            \* useState
  wsRef,                \* useRef: socket id, 0 for null
  reconnectTimeoutRef,  \* useRef: timer id, 0 for null or a dead handle
  priceAnimationRefs,   \* useRef: symbol -> delay of its pending decay timer
  sockets,              \* readyState of every WebSocket object
  timers,               \* pending reconnect timers: id -> delay, 0 when not pending
  closure,              \* what the effect's closure captured of the render
  mounted,              \* the effect has run and its cleanup has not
  mountCount,           \* number of times the effect has run
  attemptLog,           \* parity of the number of "Attempting WebSocket connection" log lines
  now,                  \* Date.now()
  lastEvent             \* the handler that ran last

\* CryptoChart (one view at a time, in the dialog of the page)
VARIABLES
  viewOpen,             \* the component is mounted
  symbol,               \* prop
  currentPrice,         \* prop: optional JS number
  chartData,            \* useState: sequence of bars
  loading,              \* useState
  timeframe,            \* useState
  error,                \* useState: TRUE when the error message is not null
  chartWsRef,           \* useRef: chart socket id, 0 for null
  chartSockets,         \* every per-symbol WebSocket: readyState and what its handler captured
  fetches,              \* calls of fetchHistoricalData that await their response
  userOps,              \* number of operations the user has made on the chart
  liveAppends           \* number of bars the per-symbol streams have appended

tickerVars ==
  <<prices, isConnected, connectionAttempts, isLoading, wsRef,
    reconnectTimeoutRef, priceAnimationRefs, sockets, timers, closure,
    mounted, mountCount, attemptLog>>

chartVars ==
  <<viewOpen, symbol, currentPrice, chartData, loading, timeframe, error,
    chartWsRef, chartSockets, fetches, userOps, liveAppends>>

vars == <<tickerVars, chartVars, now, lastEvent>>

EmptyPrices == [s \in {} |-> 0]
\* no decay timer is pending
NoDecayTimers == [s \in {} |-> 0]

\* a per-symbol socket: readyState, and the symbol and timeframe of the render
\* whose effect created it (they matter as long as its handler can still run)
ChartSocket(state, sym, tf) == [state |-> state, symbol |-> sym, timeframe |-> tf]
NoChartSocket == ChartSocket("CLOSED", "", "")
ClosingChartSocket == ChartSocket("CLOSING", "", "")

\* a call of fetchHistoricalData in flight: what its closure captured, and
\* whether the component that made it has been unmounted since
Fetch(sym, tf, price) ==
  [pending |-> TRUE, symbol |-> sym, timeframe |-> tf, currentPrice |-> price,
   orphan |-> FALSE]
NoFetch ==
  [pending |-> FALSE, symbol |-> "", timeframe |-> "", currentPrice |-> None,
   orphan |-> FALSE]
\* a call whose component is gone: its result is dropped, whatever it captured
OrphanFetch ==
  [pending |-> TRUE, symbol |-> "", timeframe |-> "", currentPrice |-> None,
   orphan |-> TRUE]

Init ==
  /\ prices = EmptyPrices
  /\ isConnected = FALSE
  /\ connectionAttempts = 0
  /\ isLoading = TRUE
  /\ wsRef = 0
  /\ reconnectTimeoutRef = 0
  /\ priceAnimationRefs = NoDecayTimers
  /\ sockets = [w \in SocketIds |-> "CLOSED"]
  /\ timers = [t \in TimerIds |-> 0]
  /\ closure = [connectionAttempts |-> 0, prices |-> EmptyPrices]
  /\ mounted = FALSE
  /\ mountCount = 0
  /\ now = 0
  /\ lastEvent = "init"
  /\ attemptLog = 0
  /\ viewOpen = FALSE
  /\ symbol = "BTCUSDT"
  /\ currentPrice = None
  /\ chartData = << >>
  /\ loading = TRUE
  /\ timeframe = "1h"
  /\ error = FALSE
  /\ chartWsRef = 0
  /\ chartSockets = [w \in ChartSocketIds |-> NoChartSocket]
  /\ fetches = [f \in FetchIds |-> NoFetch]
  /\ userOps = 0
  /\ liveAppends = 0

\* ------------------------------------------------------------------------
\* Browser primitives
\* ------------------------------------------------------------------------
\* clearTimeout(handle): a no-op for null and for a handle that is not pending
ClearTimeout(tm, handle) == IF handle = 0 THEN tm ELSE [tm EXCEPT ![handle] = 0]

FreeTimers(tm) == {t \in TimerIds : tm[t] = 0}
FreeSockets == {w \in SocketIds : sockets[w] = "CLOSED"}

\* ws.close(): starts the closing handshake of a connecting or open socket, the
\* close event follows later; a no-op on a closing or closed socket
CloseSocket(sk, w) ==
  IF w # 0 /\ sk[w] \in {"CONNECTING", "OPEN"} THEN [sk EXCEPT ![w] = "CLOSING"] ELSE sk

Live(w) == sockets[w] \in {"CONNECTING", "OPEN"}
LiveSockets == {w \in SocketIds : Live(w)}
PendingTimers == {t \in TimerIds : timers[t] # 0}

\* ------------------------------------------------------------------------
\* CryptoTracker: connectWebSocket
\* ------------------------------------------------------------------------
\* tm: the pending timers when connectWebSocket is entered; throws: whether
\* new WebSocket(...) throws.  The closure's connectionAttempts is the one the
\* effect captured, the effect having an empty dependency list.
ConnectWebSocket(tm, throws) ==
  LET cleared == ClearTimeout(tm, reconnectTimeoutRef) IN
  /\ attemptLog' = 1 - attemptLog
  /\ IF throws
     THEN \E t \in FreeTimers(cleared) :
            /\ \A u \in FreeTimers(cleared) : t <= u
            /\ timers' = [cleared EXCEPT ![t] = RetryDelay(closure.connectionAttempts)]
            /\ reconnectTimeoutRef' = t
            /\ isConnected' = FALSE
            /\ UNCHANGED <<sockets, wsRef>>
     ELSE \E w \in FreeSockets :
            /\ \A u \in FreeSockets : w <= u
            /\ sockets' = [sockets EXCEPT ![w] = "CONNECTING"]
            /\ wsRef' = w
            /\ timers' = cleared
            /\ reconnectTimeoutRef' = 0
            /\ UNCHANGED isConnected

\* The effect runs: first mount of the component.
Mount ==
  /\ ~mounted
  /\ mountCount = 0
  /\ mounted' = TRUE
  /\ mountCount' = 1
  /\ closure' = [connectionAttempts |-> connectionAttempts, prices |-> prices]
  /\ \E throws \in BOOLEAN : ConnectWebSocket(timers, throws)
  /\ UNCHANGED <<prices, connectionAttempts, isLoading, priceAnimationRefs>>
  /\ lastEvent' = "mount"
  /\ UNCHANGED <<chartVars, now>>

\* The effect runs again after its cleanup (React StrictMode replays the effect
\* of the same render, so the closure is the one of the first run).
Remount ==
  /\ ~mounted
  /\ mountCount >= 1
  /\ mountCount < MaxMounts
  /\ mounted' = TRUE
  /\ mountCount' = mountCount + 1
  /\ \E throws \in BOOLEAN : ConnectWebSocket(timers, throws)
  /\ UNCHANGED <<prices, connectionAttempts, isLoading, priceAnimationRefs, closure>>
  /\ lastEvent' = "mount"
  /\ UNCHANGED <<chartVars, now>>

\* ws.onopen without setIsLoading(false): the variant C28 tells from the
\* handler
OnOpen_KeepsLoading(w) ==
  /\ sockets[w] = "CONNECTING"
  /\ sockets' = [sockets EXCEPT ![w] = "OPEN"]
  /\ isConnected' = TRUE
  /\ connectionAttempts' = 0
  /\ UNCHANGED <<prices, isLoading, wsRef, reconnectTimeoutRef, priceAnimationRefs, timers,
                 closure, mounted, mountCount>>
  /\ lastEvent' = "open"
  /\ UNCHANGED attemptLog
  /\ UNCHANGED <<chartVars, now>>

\* ws.onopen without setConnectionAttempts(0): the variant C8 tells from the
\* handler
OnOpen_KeepsCounter(w) ==
  /\ sockets[w] = "CONNECTING"
  /\ sockets' = [sockets EXCEPT ![w] = "OPEN"]
  /\ isConnected' = TRUE
  /\ isLoading' = FALSE
  /\ UNCHANGED <<prices, connectionAttempts, wsRef, reconnectTimeoutRef,
                 priceAnimationRefs, timers, closure, mounted, mountCount>>
  /\ lastEvent' = "open"
  /\ UNCHANGED attemptLog
  /\ UNCHANGED <<chartVars, now>>

\* ws.onopen
OnOpen(w) ==
  /\ sockets[w] = "CONNECTING"
  /\ sockets' = [sockets EXCEPT ![w] = "OPEN"]
  /\ isConnected' = TRUE
  /\ connectionAttempts' = 0
  /\ isLoading' = FALSE
  /\ UNCHANGED <<prices, wsRef, reconnectTimeoutRef, priceAnimationRefs, timers,
                 closure, mounted, mountCount>>
  /\ lastEvent' = "open"
  /\ UNCHANGED attemptLog
  /\ UNCHANGED <<chartVars, now>>

\* an onerror handler that also drops the price mapping: the variant C24 tells
\* from the dashboard
OnError_DropsPrices(w) ==
  /\ sockets[w] \in {"CONNECTING", "OPEN"}
  /\ sockets' = [sockets EXCEPT ![w] = "CLOSING"]
  /\ isConnected' = FALSE
  /\ prices' = EmptyPrices
  /\ UNCHANGED <<connectionAttempts, isLoading, wsRef, reconnectTimeoutRef,
                 priceAnimationRefs, timers, closure, mounted, mountCount>>
  /\ lastEvent' = "error"
  /\ UNCHANGED attemptLog
  /\ UNCHANGED <<chartVars, now>>

\* ws.onerror: the browser reports a failure of a connecting or open socket and
\* then closes it; the close event follows.
OnError(w) ==
  /\ sockets[w] \in {"CONNECTING", "OPEN"}
  /\ sockets' = [sockets EXCEPT ![w] = "CLOSING"]
  /\ isConnected' = FALSE
  /\ UNCHANGED <<prices, connectionAttempts, isLoading, wsRef, reconnectTimeoutRef,
                 priceAnimationRefs, timers, closure, mounted, mountCount>>
  /\ lastEvent' = "error"
  /\ UNCHANGED attemptLog
  /\ UNCHANGED <<chartVars, now>>

\* ws.onclose without setIsConnected(false): the variant C26 tells from the
\* handler
OnClose_StaysConnected(w) ==
  /\ sockets[w] \in {"CONNECTING", "OPEN", "CLOSING"}
  /\ sockets' = [sockets EXCEPT ![w] = "CLOSED"]
  /\ \E t \in FreeTimers(timers) :
       /\ \A u \in FreeTimers(timers) : t <= u
       /\ timers' = [timers EXCEPT ![t] = BackoffDelay(closure.connectionAttempts)]
       /\ reconnectTimeoutRef' = t
  /\ UNCHANGED <<prices, isConnected, connectionAttempts, isLoading, wsRef,
                 priceAnimationRefs, closure, mounted, mountCount>>
  /\ lastEvent' = "close"
  /\ UNCHANGED attemptLog
  /\ UNCHANGED <<chartVars, now>>

\* ws.onclose: the close event of a socket closed by the server, by a network
\* failure or by ws.close().
OnClose(w) ==
  /\ sockets[w] \in {"CONNECTING", "OPEN", "CLOSING"}
  /\ sockets' = [sockets EXCEPT ![w] = "CLOSED"]
  /\ isConnected' = FALSE
  /\ \E t \in FreeTimers(timers) :
       /\ \A u \in FreeTimers(timers) : t <= u
       /\ timers' = [timers EXCEPT ![t] = BackoffDelay(closure.connectionAttempts)]
       /\ reconnectTimeoutRef' = t
  /\ UNCHANGED <<prices, connectionAttempts, isLoading, wsRef, priceAnimationRefs,
                 closure, mounted, mountCount>>
  /\ lastEvent' = "close"
  /\ UNCHANGED attemptLog
  /\ UNCHANGED <<chartVars, now>>

\* a timer callback that gives up after three attempts: the variant C7 tells
\* from the callback
ReconnectTimerFires_GivesUp(t) ==
  /\ timers[t] # 0
  /\ connectionAttempts < 3
  /\ connectionAttempts' = connectionAttempts + 1
  /\ \E throws \in BOOLEAN : ConnectWebSocket([timers EXCEPT ![t] = 0], throws)
  /\ UNCHANGED <<prices, isLoading, priceAnimationRefs, closure, mounted, mountCount>>
  /\ lastEvent' = "timer"
  /\ UNCHANGED <<chartVars, now>>

\* the callback of a reconnect timer (armed by onclose or by the catch branch)
ReconnectTimerFires(t) ==
  /\ timers[t] # 0
  /\ connectionAttempts < MaxAttempts
  /\ connectionAttempts' = connectionAttempts + 1
  /\ \E throws \in BOOLEAN : ConnectWebSocket([timers EXCEPT ![t] = 0], throws)
  /\ UNCHANGED <<prices, isLoading, priceAnimationRefs, closure, mounted, mountCount>>
  /\ lastEvent' = "timer"
  /\ UNCHANGED <<chartVars, now>>

\* handleReconnect without wsRef.current.close(): the variant C9 tells from
\* the handler
HandleReconnect_KeepsSocket ==
  /\ mounted
  /\ ~isConnected
  /\ connectionAttempts' = 0
  /\ UNCHANGED <<prices, isConnected, isLoading, wsRef, reconnectTimeoutRef,
                 priceAnimationRefs, sockets, timers, closure, mounted, mountCount>>
  /\ lastEvent' = "reconnect"
  /\ UNCHANGED attemptLog
  /\ UNCHANGED <<chartVars, now>>

\* handleReconnect: the button is rendered only while isConnected is false
HandleReconnect ==
  /\ mounted
  /\ ~isConnected
  /\ sockets' = CloseSocket(sockets, wsRef)
  /\ connectionAttempts' = 0
  /\ UNCHANGED <<prices, isConnected, isLoading, wsRef, reconnectTimeoutRef,
                 priceAnimationRefs, timers, closure, mounted, mountCount>>
  /\ lastEvent' = "reconnect"
  /\ UNCHANGED attemptLog
  /\ UNCHANGED <<chartVars, now>>

\* the cleanup returned by the effect
Cleanup ==
  /\ mounted
  /\ mounted' = FALSE
  /\ timers' = ClearTimeout(timers, reconnectTimeoutRef)
  /\ reconnectTimeoutRef' = 0
  /\ sockets' = CloseSocket(sockets, wsRef)
  /\ priceAnimationRefs' = NoDecayTimers
  /\ UNCHANGED <<prices, isConnected, connectionAttempts, isLoading, wsRef, closure,
                 mountCount>>
  /\ lastEvent' = "cleanup"
  /\ UNCHANGED attemptLog
  /\ UNCHANGED <<chartVars, now>>

\* ------------------------------------------------------------------------
\* CryptoTracker: ws.onmessage
\* ------------------------------------------------------------------------
\* priceDirection of lines 70-73: previousData is an optional snapshot
PriceDirection(previousData, parsedPrice) ==
  IF previousData # None /\ StrictNotEqual(previousData[1].price, parsedPrice)
  THEN IF GreaterThan(parsedPrice, previousData[1].price) THEN "up" ELSE "down"
  ELSE "neutral"

\* prices[crypto.symbol] as the handler's closure sees it
PreviousData(sym) ==
  IF sym \in DOMAIN closure.prices THEN Some(closure.prices[sym]) ELSE None

\* the body of data.forEach without the lookup in CRYPTO_SYMBOLS: the variant
\* C13 tells from the handler
ForEachTicker_NoLookup(acc, ticker) ==
  IF acc.threw THEN acc
  ELSE IF ticker.kind = "null" THEN [acc EXCEPT !.threw = TRUE]
  ELSE
    LET parsedPrice == ParseFloat(ticker.c)
        previousData == PreviousData(ticker.s)
        priceDirection == PriceDirection(previousData, parsedPrice)
        snapshot ==
          [price |-> parsedPrice,
           change24h |-> ParseFloat(ticker.P),
           changePercent24h |-> ParseFloat(ticker.P),
           lastUpdate |-> now,
           previousPrice |-> IF previousData = None THEN None
                             ELSE Some(previousData[1].price),
           priceDirection |-> priceDirection]
    IN [newPrices |-> (ticker.s :> snapshot) @@ acc.newPrices,
        armed |-> IF priceDirection = "neutral" THEN acc.armed
                  ELSE acc.armed \cup {ticker.s},
        threw |-> FALSE]

\* the body of data.forEach for one element, on the accumulator
\* [newPrices, armed, threw]: armed are the symbols whose decay timer was set
ForEachTicker(acc, ticker) ==
  IF acc.threw THEN acc
  ELSE IF ticker.kind = "null" THEN [acc EXCEPT !.threw = TRUE]
  ELSE IF ticker.s \notin CRYPTO_SYMBOLS THEN acc
  ELSE
    LET parsedPrice == ParseFloat(ticker.c)
        previousData == PreviousData(ticker.s)
        priceDirection == PriceDirection(previousData, parsedPrice)
        snapshot ==
          [price |-> parsedPrice,
           change24h |-> ParseFloat(ticker.P),
           changePercent24h |-> ParseFloat(ticker.P),
           lastUpdate |-> now,
           previousPrice |-> IF previousData = None THEN None
                             ELSE Some(previousData[1].price),
           priceDirection |-> priceDirection]
    IN [newPrices |-> (ticker.s :> snapshot) @@ acc.newPrices,
        armed |-> IF priceDirection = "neutral" THEN acc.armed
                  ELSE acc.armed \cup {ticker.s},
        threw |-> FALSE]

RECURSIVE ForEach(_, _, _)
ForEach(acc, items, i) ==
  IF i > Len(items) THEN acc
  ELSE ForEach(ForEachTicker(acc, items[i]), items, i + 1)

\* ws.onmessage merging as { ...newPrices, ...prev }: the variant C14 tells from
\* the handler
OnMessage_KeepsOld(w, data) ==
  /\ sockets[w] = "OPEN"
  /\ IF data.kind # "array"
     THEN UNCHANGED <<prices, priceAnimationRefs>>
     ELSE LET result == ForEach([newPrices |-> EmptyPrices, armed |-> {}, threw |-> FALSE],
                                data.items, 1)
          IN /\ priceAnimationRefs' = [s \in result.armed |-> DecayDelay] @@ priceAnimationRefs
             /\ prices' = IF ~result.threw /\ DOMAIN result.newPrices # {}
                          THEN prices @@ result.newPrices
                          ELSE prices
  /\ UNCHANGED <<isConnected, connectionAttempts, isLoading, wsRef, reconnectTimeoutRef,
                 sockets, timers, closure, mounted, mountCount>>
  /\ lastEvent' = "message"
  /\ UNCHANGED attemptLog
  /\ UNCHANGED <<chartVars, now>>

\* ws.onmessage, the whole handler with its try/catch
OnMessage(w, data) ==
  /\ sockets[w] = "OPEN"
  /\ IF data.kind # "array"
     THEN UNCHANGED <<prices, priceAnimationRefs>>
     ELSE LET result == ForEach([newPrices |-> EmptyPrices, armed |-> {}, threw |-> FALSE],
                                data.items, 1)
          IN /\ priceAnimationRefs' = [s \in result.armed |-> DecayDelay] @@ priceAnimationRefs
             /\ prices' = IF ~result.threw /\ DOMAIN result.newPrices # {}
                          THEN result.newPrices @@ prices
                          ELSE prices
  /\ UNCHANGED <<isConnected, connectionAttempts, isLoading, wsRef, reconnectTimeoutRef,
                 sockets, timers, closure, mounted, mountCount>>
  /\ lastEvent' = "message"
  /\ UNCHANGED attemptLog
  /\ UNCHANGED <<chartVars, now>>

\* the callback of the decay timer of a symbol (lines 80-88)
DecayTimerFires(sym) ==
  /\ sym \in DOMAIN priceAnimationRefs
  /\ priceAnimationRefs' = [s \in DOMAIN priceAnimationRefs \ {sym} |-> priceAnimationRefs[s]]
  /\ prices' = IF sym \in DOMAIN prices
               THEN [prices EXCEPT ![sym].priceDirection = "neutral"]
               ELSE (sym :> [price |-> NaN, change24h |-> NaN, changePercent24h |-> NaN,
                             lastUpdate |-> now, previousPrice |-> None,
                             priceDirection |-> "neutral"]) @@ prices
  /\ UNCHANGED <<isConnected, connectionAttempts, isLoading, wsRef, reconnectTimeoutRef,
                 sockets, timers, closure, mounted, mountCount>>
  /\ lastEvent' = "decay"
  /\ UNCHANGED attemptLog
  /\ UNCHANGED <<chartVars, now>>

\* time passes
Tick ==
  /\ now < MaxNow * PlaceholderStepMs
  /\ now' = now + PlaceholderStepMs
  /\ lastEvent' = "tick"
  /\ UNCHANGED <<tickerVars, chartVars>>

\* ------------------------------------------------------------------------
\* CryptoChart: constants and data shaping
\* ------------------------------------------------------------------------
Timeframes == {"1h", "24h", "7d", "30d"}

\* an intervalMap whose 24h entry asks for the 7d count: the variant C21 tells
\* from the table
IntervalMap_WrongCount(tf) ==
  CASE tf = "1h" -> [interval |-> "1m", limit |-> 60]
    [] tf = "24h" -> [interval |-> "5m", limit |-> 168]
    [] tf = "7d" -> [interval |-> "1h", limit |-> 168]
    [] tf = "30d" -> [interval |-> "4h", limit |-> 180]
    [] OTHER -> [interval |-> "1m", limit |-> 60]

\* intervalMap[timeframe] || intervalMap["1h"]
IntervalMap(tf) ==
  CASE tf = "1h" -> [interval |-> "1m", limit |-> 60]
    [] tf = "24h" -> [interval |-> "5m", limit |-> 288]
    [] tf = "7d" -> [interval |-> "1h", limit |-> 168]
    [] tf = "30d" -> [interval |-> "4h", limit |-> 180]
    [] OTHER -> [interval |-> "1m", limit |-> 60]

\* maxPoints of the live append
MaxPoints(tf) == IF tf = "1h" THEN 60 ELSE IF tf = "24h" THEN 288 ELSE 168

PlaceholderBars == 60

\* the length of one candle of the exchange, in seconds
IntervalSeconds(interval) ==
  CASE interval = "1m" -> 60
    [] interval = "5m" -> 5 * 60
    [] interval = "1h" -> 60 * 60
    [] interval = "4h" -> 4 * 60 * 60

\* A bar of chartData.  origin is not a field of the program: it records which
\* request or stream produced the bar.  The field price of the program always
\* equals close; it, volume and the label are left out.
Bar(timestamp, open, high, low, close, origin) ==
  [timestamp |-> timestamp, open |-> open, high |-> high, low |-> low,
   close |-> close, origin |-> origin]

Origin(kind, sym, tf) == kind \o ":" \o sym \o ":" \o tf

\* The klines the exchange answers with: n candles in ascending order of open
\* time, the last one open at the time of the answer; every price is "1".
Klines(n, interval, at) ==
  [i \in 1..n |-> <<at - (n - i) * IntervalSeconds(interval), "1", "1", "1", "1">>]

\* data.map(...) of lines 73-94
FormatKlines(data, sym, tf) ==
  [i \in 1..Len(data) |->
     Bar(data[i][1], ParseFloat(data[i][2]), ParseFloat(data[i][3]),
         ParseFloat(data[i][4]), ParseFloat(data[i][5]), Origin("history", sym, tf))]

\* the values of the three Math.random() calls of one bar, in thousandths
\* (the same for every bar of one series)
RandomDraws == {<<0, 999, 0>>, <<999, 0, 999>>}

\* if (currentPrice): undefined, NaN and 0 are falsy
Truthy(optPrice) == optPrice # None /\ optPrice[1] # NaN /\ optPrice[1] # 0

\* price * (1 + variation), variation = (Math.random() - 0.5) * 0.02; the
\* products are taken on price / 1000 to stay within 32 bits
WalkClose(price, r) == price + ((price \div 1000) * ((r - 500) * 20)) \div 1000
\* Math.max(open, close) * (1 + Math.random() * 0.01)
WalkHigh(open, close, r) ==
  LET m == IF open >= close THEN open ELSE close IN m + ((m \div 1000) * (r * 10)) \div 1000
\* Math.min(open, close) * (1 - Math.random() * 0.01)
WalkLow(open, close, r) ==
  LET m == Min(open, close) IN m - ((m \div 1000) * (r * 10)) \div 1000

\* the running price of the loop of lines 107-126 after n more iterations:
\* walk[k] is the open of the k-th bar and walk[k + 1] its close
RECURSIVE Walk(_, _, _)
Walk(walk, r, n) ==
  IF n = 0 THEN walk
  ELSE Walk(Append(walk, WalkClose(walk[Len(walk)], r)), r, n - 1)

\* a placeholder whose bars all open at the seed price: the variant C30 tells
\* from the loop
Placeholder_Unchained(price, at, draws, sym, tf) ==
  LET walk == Walk(<<price>>, draws[1], PlaceholderBars)
      origin == Origin("placeholder", sym, tf)
  IN [k \in 1..PlaceholderBars |->
        Bar(at - (PlaceholderBars - k) * PlaceholderStepMs,
            Num(price), Num(WalkHigh(price, walk[k + 1], draws[2])),
            Num(WalkLow(price, walk[k + 1], draws[3])), Num(walk[k + 1]), origin)]

\* sampleData of lines 103-126: the k-th bar pushed is the one of i = 60 - k;
\* draws[1], draws[2], draws[3] are the values of the three Math.random() calls
\* that shape a bar
Placeholder(price, at, draws, sym, tf) ==
  LET walk == Walk(<<price>>, draws[1], PlaceholderBars)
      origin == Origin("placeholder", sym, tf)
  IN [k \in 1..PlaceholderBars |->
        Bar(at - (PlaceholderBars - k) * PlaceholderStepMs,
            Num(walk[k]), Num(WalkHigh(walk[k], walk[k + 1], draws[2])),
            Num(WalkLow(walk[k], walk[k + 1], draws[3])), Num(walk[k + 1]), origin)]

\* prev.slice(-(maxPoints - 1)): the last maxPoints - 1 elements
SliceLast(seq, n) ==
  IF Len(seq) <= n THEN seq ELSE SubSeq(seq, Len(seq) - n + 1, Len(seq))

\* event.data of the per-symbol stream: no JSON, the JSON value null, or a
\* JSON object with or without the ticker fields
ChartTicker(c) == [kind |-> "object", c |-> c, o |-> c, h |-> c, l |-> c]
ChartPayloads ==
  {[kind |-> "invalid", c |-> Undefined, o |-> Undefined, h |-> Undefined, l |-> Undefined],
   [kind |-> "null", c |-> Undefined, o |-> Undefined, h |-> Undefined, l |-> Undefined]}
    \cup {ChartTicker(c) : c \in {"2", Undefined}}

\* the lengths of the array the history endpoint answers with, for a request
\* of limit klines
ResponseLengths(limit) == {1, limit}

ChartSymbols == {"BTCUSDT", "ETHUSDT"}
\* the asset the page opens the chart for
OpenSymbols == {"BTCUSDT"}
CurrentPrices == {None, Some(Num(Unit))}

LiveChartSockets == {w \in ChartSocketIds : chartSockets[w].state \in {"CONNECTING", "OPEN"}}
FreeChartSockets(cs) == {w \in ChartSocketIds : cs[w].state = "CLOSED"}
PendingFetches == {f \in FetchIds : fetches[f].pending}

\* chartWsRef.current.close()
CloseChartSocket(cs, w) ==
  IF w # 0 /\ cs[w].state \in {"CONNECTING", "OPEN"}
  THEN [cs EXCEPT ![w] = ClosingChartSocket] ELSE cs

\* connectWebSocket of the chart effect that leaves the previous socket alone:
\* the variant C6 tells from the effect
ChartConnect_KeepsPrevious(ref, sym, tf) ==
  \E w \in FreeChartSockets(chartSockets) :
    /\ \A u \in FreeChartSockets(chartSockets) : w <= u
    /\ chartSockets' = [chartSockets EXCEPT ![w] = ChartSocket("CONNECTING", sym, tf)]
    /\ chartWsRef' = w

\* connectWebSocket of the chart effect, for the render with (sym, tf); ref is
\* chartWsRef.current when it is entered.  The URL is well-formed for every
\* symbol, so the constructor does not throw: a connection that cannot be
\* made is a socket that closes.
ChartConnect(ref, sym, tf) ==
  LET closed == CloseChartSocket(chartSockets, ref) IN
  \E w \in FreeChartSockets(closed) :
    /\ \A u \in FreeChartSockets(closed) : w <= u
    /\ chartSockets' = [closed EXCEPT ![w] = ChartSocket("CONNECTING", sym, tf)]
    /\ chartWsRef' = w

\* fetchHistoricalData up to its first await, called in a render with
\* (sym, tf, price)
StartFetch(sym, tf, price) ==
  /\ loading' = TRUE
  /\ error' = FALSE
  /\ \E f \in FetchIds \ PendingFetches :
       /\ \A g \in FetchIds \ PendingFetches : f <= g
       /\ fetches' = [fetches EXCEPT ![f] = Fetch(sym, tf, price)]

\* ------------------------------------------------------------------------
\* CryptoChart: operations
\* ------------------------------------------------------------------------
\* The page selects an asset: a new CryptoChart is mounted and both effects run.
OpenView(sym, price) ==
  /\ userOps < MaxUserOps
  /\ userOps' = userOps + 1
  /\ ~viewOpen
  /\ viewOpen' = TRUE
  /\ symbol' = sym
  /\ currentPrice' = price
  /\ chartData' = << >>
  /\ timeframe' = "1h"
  /\ ChartConnect(0, sym, "1h")
  /\ StartFetch(sym, "1h", price)
  /\ UNCHANGED <<tickerVars, now, lastEvent>>
  /\ UNCHANGED liveAppends

\* The dialog closes: the component is unmounted and the cleanup of the stream
\* effect runs.  Its state is gone (the variables go back to their initial
\* values), and React drops the state updates of what is still in flight.
CloseView ==
  /\ userOps < MaxUserOps
  /\ userOps' = userOps + 1
  /\ viewOpen
  /\ viewOpen' = FALSE
  /\ chartSockets' = CloseChartSocket(chartSockets, chartWsRef)
  /\ fetches' = [f \in FetchIds |-> IF fetches[f].pending THEN OrphanFetch ELSE NoFetch]
  /\ symbol' = "BTCUSDT"
  /\ currentPrice' = None
  /\ chartData' = << >>
  /\ loading' = TRUE
  /\ timeframe' = "1h"
  /\ error' = FALSE
  /\ chartWsRef' = 0
  /\ UNCHANGED <<tickerVars, now, lastEvent>>
  /\ UNCHANGED liveAppends

\* setTimeframe(tf) from a timeframe button (disabled while loading); both
\* effects depend on [symbol, timeframe]: cleanup of the stream effect, then
\* connectWebSocket and fetchHistoricalData of the new render.
SetTimeframe(tf) ==
  /\ userOps < MaxUserOps
  /\ userOps' = userOps + 1
  /\ viewOpen
  /\ ~loading
  /\ tf # timeframe
  /\ timeframe' = tf
  /\ ChartConnect(chartWsRef, symbol, tf)
  /\ StartFetch(symbol, tf, currentPrice)
  /\ UNCHANGED <<viewOpen, symbol, currentPrice, chartData>>
  /\ UNCHANGED <<tickerVars, now, lastEvent>>
  /\ UNCHANGED liveAppends

\* The parent renders the open chart with another symbol: the same effects run
\* as for a change of timeframe.
SetSymbol(sym) ==
  /\ userOps < MaxUserOps
  /\ userOps' = userOps + 1
  /\ viewOpen
  /\ sym # symbol
  /\ symbol' = sym
  /\ ChartConnect(chartWsRef, sym, timeframe)
  /\ StartFetch(sym, timeframe, currentPrice)
  /\ UNCHANGED <<viewOpen, currentPrice, chartData, timeframe>>
  /\ UNCHANGED <<tickerVars, now, lastEvent>>
  /\ UNCHANGED liveAppends

\* The parent renders the open chart with another current price.
SetCurrentPrice(price) ==
  /\ userOps < MaxUserOps
  /\ userOps' = userOps + 1
  /\ viewOpen
  /\ price # currentPrice
  /\ currentPrice' = price
  /\ UNCHANGED <<viewOpen, symbol, chartData, loading, timeframe, error, chartWsRef,
                 chartSockets, fetches>>
  /\ UNCHANGED <<tickerVars, now, lastEvent>>
  /\ UNCHANGED liveAppends

\* the Refresh, Try Again and Load Data buttons: fetchHistoricalData of the
\* current render; none of them can be pressed while loading
Refresh ==
  /\ userOps < MaxUserOps
  /\ userOps' = userOps + 1
  /\ viewOpen
  /\ ~loading
  /\ StartFetch(symbol, timeframe, currentPrice)
  /\ UNCHANGED <<viewOpen, symbol, currentPrice, chartData, timeframe, chartWsRef,
                 chartSockets>>
  /\ UNCHANGED <<tickerVars, now, lastEvent>>
  /\ UNCHANGED liveAppends

\* fetchHistoricalData after its awaits, the response of fetch f being an
\* array of n > 0 klines
FetchSucceeds(f, n) ==
  /\ fetches[f].pending
  /\ n > 0
  /\ n <= IntervalMap(fetches[f].timeframe).limit
  /\ fetches' = [fetches EXCEPT ![f] = NoFetch]
  /\ LET call == fetches[f]
     IN IF call.orphan
        THEN UNCHANGED <<chartData, loading, error>>
        ELSE /\ chartData' =
                  FormatKlines(Klines(n, IntervalMap(call.timeframe).interval, now),
                               call.symbol, call.timeframe)
             /\ loading' = FALSE
             /\ UNCHANGED error
  /\ UNCHANGED <<viewOpen, symbol, currentPrice, timeframe, chartWsRef, chartSockets>>
  /\ UNCHANGED <<tickerVars, now, lastEvent>>
  /\ UNCHANGED <<userOps, liveAppends>>

\* fetchHistoricalData after its awaits, fetch f having failed: fetch rejected,
\* the status was not ok, or the body was no array or an empty one.  All of them
\* throw into the same catch branch.
FetchFails(f, draws) ==
  /\ fetches[f].pending
  /\ fetches' = [fetches EXCEPT ![f] = NoFetch]
  /\ LET call == fetches[f]
     IN IF call.orphan
        THEN UNCHANGED <<chartData, loading, error>>
        ELSE /\ loading' = FALSE
             /\ IF Truthy(call.currentPrice)
                THEN /\ chartData' = Placeholder(call.currentPrice[1], now, draws,
                                                 call.symbol, call.timeframe)
                     /\ error' = FALSE
                ELSE /\ error' = TRUE
                     /\ UNCHANGED chartData
  /\ UNCHANGED <<viewOpen, symbol, currentPrice, timeframe, chartWsRef, chartSockets>>
  /\ UNCHANGED <<tickerVars, now, lastEvent>>
  /\ UNCHANGED <<userOps, liveAppends>>

\* the per-symbol socket connects (no onopen handler is set)
ChartSocketOpens(w) ==
  /\ chartSockets[w].state = "CONNECTING"
  /\ chartSockets' = [chartSockets EXCEPT ![w].state = "OPEN"]
  /\ UNCHANGED <<viewOpen, symbol, currentPrice, chartData, loading, timeframe, error,
                 chartWsRef, fetches>>
  /\ UNCHANGED <<tickerVars, now, lastEvent>>
  /\ UNCHANGED <<userOps, liveAppends>>

\* a close of the per-symbol socket with an onclose handler that connects
\* again: the variant C22 tells from the component
ChartSocketCloses_Reconnects(w) ==
  /\ chartSockets[w].state \in {"CONNECTING", "OPEN", "CLOSING"}
  /\ chartSockets' =
       [chartSockets EXCEPT ![w] = IF chartSockets[w].state = "CLOSING" THEN NoChartSocket
                                   ELSE ChartSocket("CONNECTING", symbol, timeframe)]
  /\ UNCHANGED <<viewOpen, symbol, currentPrice, chartData, loading, timeframe, error,
                 chartWsRef, fetches>>
  /\ UNCHANGED <<tickerVars, now, lastEvent>>
  /\ UNCHANGED <<userOps, liveAppends>>

\* the per-symbol socket is closed: by the server, by a failure or at the end
\* of the closing handshake (no onclose or onerror handler is set)
ChartSocketCloses(w) ==
  /\ chartSockets[w].state \in {"CONNECTING", "OPEN", "CLOSING"}
  /\ chartSockets' = [chartSockets EXCEPT ![w] = NoChartSocket]
  /\ UNCHANGED <<viewOpen, symbol, currentPrice, chartData, loading, timeframe, error,
                 chartWsRef, fetches>>
  /\ UNCHANGED <<tickerVars, now, lastEvent>>
  /\ UNCHANGED <<userOps, liveAppends>>

\* a live append that also calls setError(null): the variant C27 tells from
\* the handler
ChartOnMessage_ClearsError(w, data) ==
  /\ chartSockets[w].state = "OPEN"
  /\ liveAppends < MaxLiveBars
  /\ IF data.kind # "object"
     THEN UNCHANGED <<chartData, liveAppends>>
     ELSE LET newPrice == ParseFloat(data.c)
              newDataPoint ==
                Bar(now, ParseFloat(data.o), ParseFloat(data.h), ParseFloat(data.l),
                    newPrice,
                    Origin("live", chartSockets[w].symbol, chartSockets[w].timeframe))
              maxPoints == MaxPoints(chartSockets[w].timeframe)
          IN /\ chartData' = Append(SliceLast(chartData, maxPoints - 1), newDataPoint)
             /\ liveAppends' = liveAppends + 1
  /\ error' = FALSE
  /\ UNCHANGED <<viewOpen, symbol, currentPrice, loading, timeframe, chartWsRef,
                 chartSockets, fetches>>
  /\ UNCHANGED <<tickerVars, now, lastEvent>>
  /\ UNCHANGED userOps

\* ws.onmessage of the chart: message events are delivered to an open socket only
ChartOnMessage(w, data) ==
  /\ chartSockets[w].state = "OPEN"
  /\ liveAppends < MaxLiveBars
  /\ IF data.kind # "object"
     THEN UNCHANGED <<chartData, liveAppends>>
     ELSE LET newPrice == ParseFloat(data.c)
              newDataPoint ==
                Bar(now, ParseFloat(data.o), ParseFloat(data.h), ParseFloat(data.l),
                    newPrice,
                    Origin("live", chartSockets[w].symbol, chartSockets[w].timeframe))
              maxPoints == MaxPoints(chartSockets[w].timeframe)
          IN /\ chartData' = Append(SliceLast(chartData, maxPoints - 1), newDataPoint)
             /\ liveAppends' = liveAppends + 1
  /\ UNCHANGED <<viewOpen, symbol, currentPrice, loading, timeframe, error, chartWsRef,
                 chartSockets, fetches>>
  /\ UNCHANGED <<tickerVars, now, lastEvent>>
  /\ UNCHANGED userOps

\* ------------------------------------------------------------------------
\* Specifications
\* ------------------------------------------------------------------------
\* One run of the effect: mount, events, cleanup, and the events that still
\* arrive after the cleanup.  DecayTimerFires is no disjunct: onmessage arms a
\* decay timer only for a direction other than neutral, and the direction it
\* computes from the captured prices is neutral in every reachable state, so
\* the callback is never enabled.
Next ==
  \/ Mount
  \/ \E w \in SocketIds : OnOpen(w)
  \/ \E w \in SocketIds : OnError(w)
  \/ \E w \in SocketIds : OnClose(w)
  \/ \E w \in SocketIds, data \in Payloads : OnMessage(w, data)
  \/ \E t \in TimerIds : ReconnectTimerFires(t)
  \/ HandleReconnect
  \/ Cleanup
  \/ Tick

Spec == Init /\ [][Next]_vars

\* The same with the effect run again after a cleanup.
NextStrict ==
  \/ Next
  \/ Remount

SpecStrict == Init /\ [][NextStrict]_vars

NextChart ==
  \/ \E sym \in OpenSymbols, price \in CurrentPrices : OpenView(sym, price)
  \/ CloseView
  \/ \E tf \in Timeframes : SetTimeframe(tf)
  \/ \E sym \in ChartSymbols : SetSymbol(sym)
  \/ \E price \in CurrentPrices : SetCurrentPrice(price)
  \/ Refresh
  \/ \E f \in FetchIds : \E n \in ResponseLengths(IntervalMap(fetches[f].timeframe).limit) :
       FetchSucceeds(f, n)
  \/ \E f \in FetchIds, draws \in RandomDraws : FetchFails(f, draws)
  \/ \E w \in ChartSocketIds : ChartSocketOpens(w)
  \/ \E w \in ChartSocketIds : ChartSocketCloses(w)
  \/ \E w \in ChartSocketIds, data \in ChartPayloads : ChartOnMessage(w, data)
  \/ Tick

SpecChart == Init /\ [][NextChart]_vars

\* The browser delivers the close event of a socket that is closing, and a
\* pending timer fires when its delay has elapsed.
FairSpec ==
  /\ Spec
  /\ WF_vars(\E t \in TimerIds : ReconnectTimerFires(t))
  /\ WF_vars(\E w \in SocketIds : sockets[w] = "CLOSING" /\ OnClose(w))

\* ------------------------------------------------------------------------
\* Claims on the aggregate stream
\* ------------------------------------------------------------------------
TornDown == ~mounted /\ mountCount >= 1
NeedsRetry == PendingTimers # {} \/ \E w \in SocketIds : sockets[w] = "CLOSING"

\* C1: on every close of the aggregate stream the reconnect timer is armed with
\* min(1000 * 2^attempts, 30000) ms for the current value of the attempt
\* counter (1000, 2000, 4000, 8000, 16000, 30000 for 0..5), hence 1000 ms
\* right after a successful open or a manual reconnect.
C1_DelayFollowsAttemptCounter ==
  [][lastEvent' = "close" =>
       timers'[reconnectTimeoutRef'] = BackoffDelay(connectionAttempts)]_vars

\* C2: an update of a tracked symbol whose stored price is P to the price P2
\* stores the direction up iff P2 > P, down iff P2 < P, neutral otherwise.
C2_DirectionFollowsPrice ==
  [][lastEvent' = "message" =>
       \A sym \in DOMAIN prices \cap DOMAIN prices' :
         LET P == prices[sym].price
             P2 == prices'[sym].price
             dir == prices'[sym].priceDirection
         IN /\ GreaterThan(P2, P) => dir = "up"
            /\ GreaterThan(P, P2) => dir = "down"
            /\ (prices'[sym] # prices[sym] /\ P2 = P) => dir = "neutral"]_vars

\* C4: after the teardown no reconnect timer is pending or armed, no aggregate
\* connection is live or opened, and no state of the component is updated.
C4_TeardownIsFinal ==
  /\ [](TornDown => PendingTimers = {} /\ LiveSockets = {})
  /\ [][TornDown => UNCHANGED <<prices, isConnected, connectionAttempts, isLoading>>]_vars

\* C5: at most one aggregate connection is live (connecting or open) in every
\* reachable state, also when the manager is started again after a teardown.
C5_OneLiveAggregateConnection == Cardinality(LiveSockets) <= 1

\* C7: whenever the aggregate stream has closed or could not be created and the
\* manager is not torn down, another connection attempt follows, whatever the
\* number of failures so far.
C7_RetriesForever ==
  \A p \in {0, 1} :
    []((mounted /\ NeedsRetry /\ attemptLog = p /\ connectionAttempts < MaxAttempts)
         => <>(attemptLog # p \/ ~mounted))

\* five consecutive failures without any successful open, and a sixth attempt made
C7_Witness ==
  /\ mounted
  /\ isLoading
  /\ lastEvent = "timer"
  /\ connectionAttempts = 5

\* C8: an open sets connected and zeroes the attempt counter, a close sets
\* disconnected, only an open or a manual reconnect takes the counter back to
\* zero, and every firing of a reconnect timer adds exactly one to it.
C8_CounterDiscipline ==
  [][/\ lastEvent' = "open" => (isConnected' /\ connectionAttempts' = 0)
     /\ lastEvent' = "close" => ~isConnected'
     /\ (connectionAttempts # 0 /\ connectionAttempts' = 0)
          => lastEvent' \in {"open", "reconnect"}
     /\ lastEvent' = "timer" => connectionAttempts' = connectionAttempts + 1]_vars

\* an open that follows three failed attempts has reset the counter
C8_Witness ==
  /\ lastEvent = "open"
  /\ isConnected
  /\ connectionAttempts = 0
  /\ sockets[wsRef] = "OPEN"

\* C9: a manual reconnect zeroes the attempt counter at once and leaves the
\* current connection not live, with its close event or a reconnect timer
\* pending, so that another attempt follows; at no time are two reconnect
\* timers pending or two connections live.
C9_ManualReconnect ==
  /\ [](Cardinality(PendingTimers) <= 1 /\ Cardinality(LiveSockets) <= 1)
  /\ [][lastEvent' = "reconnect" =>
          /\ connectionAttempts' = 0
          /\ LiveSockets' = {}
          /\ NeedsRetry']_vars
  /\ \A p \in {0, 1} :
       []((mounted /\ lastEvent = "reconnect" /\ attemptLog = p)
            => <>(attemptLog # p \/ ~mounted))

\* a manual reconnect that closed a connecting socket after failed attempts
C9_Witness ==
  /\ lastEvent = "reconnect"
  /\ connectionAttempts = 0
  /\ wsRef # 0
  /\ sockets[wsRef] = "CLOSING"
  /\ PendingTimers = {}

\* a manual reconnect while waiting on the backoff timer
C9_WitnessWaiting ==
  /\ lastEvent = "reconnect"
  /\ connectionAttempts = 0
  /\ Cardinality(PendingTimers) = 1
  /\ LiveSockets = {}

Malformed(data) ==
  \/ data.kind # "array"
  \/ \E i \in DOMAIN data.items : data.items[i] \in {NullElement, EmptyElement}

\* C11: a malformed message of the aggregate stream is discarded as a whole: it
\* leaves the price mapping, the connectivity state, the attempt counter and
\* the pending timers unchanged, also when other elements of the batch are valid.
C11_MalformedDiscarded ==
  [][\A w \in SocketIds, data \in Payloads :
       (Malformed(data) /\ OnMessage(w, data))
         => UNCHANGED <<prices, isConnected, connectionAttempts, timers,
                        priceAnimationRefs>>]_vars

\* the symbols a payload mentions
Mentioned(data) == {data.items[i].s : i \in DOMAIN data.items}

\* C13: the keys of the price mapping are tracked symbols in every reachable
\* state (an untracked symbol of a message adds none), no event removes a key,
\* and nothing but a message adds one.
C13_KeysAreTracked ==
  /\ [](DOMAIN prices \subseteq CRYPTO_SYMBOLS)
  /\ [][/\ DOMAIN prices \subseteq DOMAIN prices'
        /\ lastEvent' # "message" => DOMAIN prices' = DOMAIN prices]_vars

\* both tracked symbols of the messages are stored, and the mapping has kept
\* them over a close and the reconnect that followed
C13_Witness ==
  /\ DOMAIN prices = MsgSymbols \cap CRYPTO_SYMBOLS
  /\ lastEvent = "timer"
  /\ connectionAttempts >= 1
  /\ wsRef # 0
  /\ sockets[wsRef] = "CONNECTING"

\* a payload the handler processes to its end: an array without a null element
Processed(data) ==
  /\ data.kind = "array"
  /\ \A i \in DOMAIN data.items : data.items[i].kind # "null"

\* the last element of a batch that mentions sym
LastOccurrence(data, sym) ==
  data.items[CHOOSE i \in DOMAIN data.items :
               /\ data.items[i].s = sym
               /\ \A j \in DOMAIN data.items : j > i => data.items[j].s # sym]

\* C14: after a processed message the mapping has an entry for every tracked
\* symbol the message mentions, holding the price and the 24h change of its
\* last occurrence in the batch; the entries of the symbols it does not mention
\* are as before, and nothing but a processed message changes the mapping, so
\* that every entry holds the most recent update of its symbol.
C14_LatestUpdateStored ==
  [][/\ \A w \in SocketIds, data \in Payloads :
          OnMessage(w, data) =>
            IF Processed(data)
            THEN \A sym \in CRYPTO_SYMBOLS :
                   IF sym \in Mentioned(data)
                   THEN /\ sym \in DOMAIN prices'
                        /\ prices'[sym].price = ParseFloat(LastOccurrence(data, sym).c)
                        /\ prices'[sym].change24h = ParseFloat(LastOccurrence(data, sym).P)
                        /\ prices'[sym].changePercent24h = ParseFloat(LastOccurrence(data, sym).P)
                   ELSE /\ sym \in DOMAIN prices' <=> sym \in DOMAIN prices
                        /\ sym \in DOMAIN prices => prices'[sym] = prices[sym]
            ELSE prices' = prices
     /\ lastEvent' # "message" => prices' = prices]_vars

\* the entries of two messages received at different times, the later one
\* having updated BTCUSDT only
C14_Witness ==
  /\ lastEvent = "message"
  /\ DOMAIN prices = {"BTCUSDT", "ETHUSDT"}
  /\ prices["BTCUSDT"].price = ParseFloat("2")
  /\ prices["BTCUSDT"].change24h = ParseFloat("3")
  /\ prices["ETHUSDT"].price = ParseFloat("1")
  /\ prices["BTCUSDT"].lastUpdate > prices["ETHUSDT"].lastUpdate

\* the events of the aggregate stream and of its manager
TickerEvents == {"mount", "open", "error", "close", "timer", "reconnect", "cleanup",
                 "message", "decay"}

\* a history load of the open view completes in the step
LoaderCompletes ==
  \E f \in FetchIds : fetches[f].pending /\ ~fetches[f].orphan /\ ~fetches'[f].pending

\* the stream of the open view appends a bar in the step
LiveAppend ==
  /\ liveAppends' # liveAppends
  /\ chartWsRef # 0
  /\ chartSockets[chartWsRef].state = "OPEN"

\* C24: the price mapping is changed only by the message handler of the
\* aggregate stream and by decay timers, and the bar sequence of a chart only
\* by its history loader and by the live append of the open view (a chart that
\* is opened or closed starts empty); open, close, error, reconnect-timer and
\* manual-reconnect events leave the price mapping unchanged, and no event of
\* the aggregate stream changes a bar sequence.
C24_WritersOfPricesAndBars ==
  [][/\ prices' # prices => lastEvent' \in {"message", "decay"}
     /\ (lastEvent' \in TickerEvents /\ tickerVars' # tickerVars) => chartData' = chartData
     /\ chartData' # chartData =>
          (viewOpen' # viewOpen \/ LoaderCompletes \/ LiveAppend)]_vars

\* prices are stored, the stream failed and was closed, and the reconnect timer
\* then fired: the mapping is still there
C24_Witness ==
  /\ prices # EmptyPrices
  /\ lastEvent = "timer"
  /\ connectionAttempts >= 1
  /\ ~isConnected

\* C26: in every reachable state of a manager that has not been torn down, a
\* connected manager has the attempt counter 0 and no reconnect timer pending,
\* and at most one reconnect timer is pending.
C26_ConnectedMeansSettled ==
  ~TornDown =>
    /\ isConnected => (connectionAttempts = 0 /\ PendingTimers = {})
    /\ Cardinality(PendingTimers) <= 1

\* connected again after a reconnect: the counter is back at 0 and the timer
\* that led here is gone
C26_Witness ==
  /\ mounted
  /\ isConnected
  /\ attemptLog = 0
  /\ wsRef # 0
  /\ sockets[wsRef] = "OPEN"
  /\ connectionAttempts = 0
  /\ PendingTimers = {}

\* C28: the initial-loading flag starts true, becomes false exactly at the
\* first successful open of the aggregate stream and is never true again; as
\* long as no open has succeeded it stays true, through every reconnect
\* attempt.
C28_LoadingUntilFirstOpen ==
  /\ isLoading = TRUE
  /\ [][/\ isLoading => (isLoading' <=> lastEvent' # "open")
        /\ ~isLoading => ~isLoading']_vars

\* the stream opened once and was lost: a reconnect attempt has been made and
\* the flag is still false
C28_Witness ==
  /\ mounted
  /\ ~isLoading
  /\ ~isConnected
  /\ connectionAttempts >= 1
  /\ lastEvent = "timer"

\* no open has succeeded after two reconnect attempts: the flag is still true
C28_WitnessStillLoading ==
  /\ mounted
  /\ isLoading
  /\ connectionAttempts >= 2

\* new WebSocket(...) threw in the step: the catch branch armed the retry timer
\* (a call that creates the socket leaves no timer behind)
ConnectThrows ==
  /\ lastEvent' \in {"mount", "timer"}
  /\ vars' # vars
  /\ reconnectTimeoutRef' # 0

\* C31: when creating the aggregate connection throws, the retry timer is
\* armed with min(5000 * (attempts + 1), 30000) ms for the attempt counter (as
\* it is before or after the step), not with the exponential delay, the
\* connectivity state is disconnected, and the counter grows by one when that
\* timer fires.
C31_ThrowRetryDelay ==
  [][/\ ConnectThrows =>
          /\ timers'[reconnectTimeoutRef'] \in
               {RetryDelay(connectionAttempts), RetryDelay(connectionAttempts')}
          /\ ~isConnected'
     /\ lastEvent' = "timer" /\ vars' # vars => connectionAttempts' = connectionAttempts + 1]_vars

\* C23: the dashboard tracks 6 assets at once: in every reachable state the
\* symbols of the price mapping are taken from a fixed set of tracked symbols
\* that has exactly 6 members.
C23_SixTrackedAssets ==
  /\ DOMAIN prices \subseteq CRYPTO_SYMBOLS
  /\ Cardinality(CRYPTO_SYMBOLS) = 6

\* ------------------------------------------------------------------------
\* Claims on the chart
\* ------------------------------------------------------------------------
\* C3: the result of a history fetch, success or failure, is applied only if no
\* load for another symbol or timeframe has been started since that fetch was
\* started; the result of a superseded fetch changes nothing.
C3_StaleFetchDiscarded ==
  [][\A f \in FetchIds :
       (/\ fetches[f].pending
        /\ ~fetches[f].orphan
        /\ ~fetches'[f].pending
        /\ (fetches[f].symbol # symbol \/ fetches[f].timeframe # timeframe))
         => UNCHANGED <<chartData, loading, error>>]_vars

\* C6: at most one per-symbol connection is live, it is the one of the open
\* view and of its current symbol and timeframe, and every bar a stream
\* appends comes from that connection.
C6_OneLiveChartConnection ==
  /\ [](/\ Cardinality(LiveChartSockets) <= 1
        /\ \A w \in LiveChartSockets :
             /\ viewOpen
             /\ w = chartWsRef
             /\ chartSockets[w].symbol = symbol
             /\ chartSockets[w].timeframe = timeframe)
  /\ [][liveAppends' # liveAppends =>
          /\ chartSockets[chartWsRef].state = "OPEN"
          /\ chartData'[Len(chartData')].origin = Origin("live", symbol, timeframe)]_vars

\* after a change of symbol or timeframe: the previous connection is closing
\* while the new one is live
C6_Witness ==
  /\ viewOpen
  /\ (symbol # "BTCUSDT" \/ timeframe # "1h")
  /\ Cardinality(LiveChartSockets) = 1
  /\ \E w \in ChartSocketIds : chartSockets[w].state = "CLOSING"

\* a payload of the per-symbol stream that is no JSON or a JSON value without
\* the ticker fields
ChartMalformed(data) == data.kind # "object" \/ data.c = Undefined

\* C12: a malformed payload of the per-symbol stream is dropped: no bar is
\* appended, and the bar sequence, the loading flag and the error flag are
\* unchanged.
C12_ChartMalformedDropped ==
  [][\A w \in ChartSocketIds, data \in ChartPayloads :
       (ChartMalformed(data) /\ ChartOnMessage(w, data))
         => UNCHANGED <<chartData, loading, error>>]_vars

\* the capacity of a timeframe: the number of bars its history load requests
Capacity(tf) == IntervalMap(tf).limit

\* C15: a live bar appended to a sequence that is full for the timeframe leaves
\* it at the capacity, the new bar last and only the first bar removed; a live
\* bar appended to a shorter sequence removes nothing.
C15_WindowEviction ==
  [][liveAppends' # liveAppends =>
       LET newBar == chartData'[Len(chartData')]
       IN /\ Len(chartData) = Capacity(timeframe)
               => chartData' = Append(Tail(chartData), newBar)
          /\ Len(chartData) < Capacity(timeframe)
               => chartData' = Append(chartData, newBar)]_vars

\* ascending by timestamp
SortedByTimestamp(bars) ==
  \A i \in 1..(Len(bars) - 1) : bars[i].timestamp <= bars[i + 1].timestamp

\* C16: in every reachable state of an open chart the bar sequence is sorted
\* ascending by timestamp and is no longer than the capacity of the window of
\* the selected timeframe (60, 288, 168, 168 bars for 1h, 24h, 7d, 30d).
C16_SortedWithinCapacity ==
  viewOpen =>
    /\ SortedByTimestamp(chartData)
    /\ Len(chartData) <= MaxPoints(timeframe)

\* a step in which the fetch f of the open view completes by failure: the
\* sequence is not the history of the request
FailureCompletes(f) ==
  /\ fetches[f].pending
  /\ ~fetches[f].orphan
  /\ ~fetches'[f].pending
  /\ viewOpen'
  /\ \A n \in ResponseLengths(IntervalMap(fetches[f].timeframe).limit) : ~FetchSucceeds(f, n)

\* C17: when a history fetch fails and a current price is known, the load
\* leaves a placeholder of exactly 60 bars, whatever the timeframe, and the
\* error flag false.
C17_PlaceholderOnFailure ==
  [][\A f \in FetchIds :
       (FailureCompletes(f) /\ currentPrice # None)
         => /\ Len(chartData') = PlaceholderBars
            /\ \A i \in DOMAIN chartData' :
                 chartData'[i].origin
                   = Origin("placeholder", fetches[f].symbol, fetches[f].timeframe)
            /\ ~error']_vars

\* C18: when a history fetch fails and no current price is known, neither now
\* nor when the load was started, the load leaves the error flag true and the
\* bar sequence empty, whatever the sequence held before.
C18_EmptyOnFailure ==
  [][\A f \in FetchIds :
       (FailureCompletes(f) /\ currentPrice = None /\ fetches[f].currentPrice = None)
         => /\ error'
            /\ chartData' = << >>]_vars

\* the origins of the bars made for the timeframe tf: by a history load, by a
\* placeholder or by a stream of that timeframe
OriginsOf(tf) ==
  {Origin(kind, sym, tf) : kind \in {"history", "placeholder", "live"}, sym \in ChartSymbols}

\* C19: once the load invoked for the selected timeframe has completed, by
\* success or by failure, the bar sequence holds no bar of another timeframe:
\* the bars that were in it before the timeframe was selected are gone.
C19_ReloadStartsOver ==
  [][\A f \in FetchIds :
       (/\ fetches[f].pending
        /\ ~fetches[f].orphan
        /\ ~fetches'[f].pending
        /\ viewOpen'
        /\ fetches[f].symbol = symbol
        /\ fetches[f].timeframe = timeframe)
         => \A i \in DOMAIN chartData' : chartData'[i].origin \in OriginsOf(timeframe)]_vars

\* the fetches of the open view that are in flight
InFlight == {f \in FetchIds : fetches[f].pending /\ ~fetches[f].orphan}

\* C20: in every reachable state of an open chart loading is false only if no
\* history fetch is in flight, and the completion of a fetch leaves loading
\* false.
C20_LoadingWhileInFlight ==
  /\ []((viewOpen /\ ~loading) => InFlight = {})
  /\ [][\A f \in FetchIds :
          (f \in InFlight /\ ~fetches'[f].pending /\ viewOpen') => ~loading']_vars

\* values of the timeframe state that no button sets
OtherTimeframes == {"", "1w"}

\* a step in which the fetch f of the open view completes by success
SuccessCompletes(f) ==
  /\ f \in InFlight
  /\ viewOpen'
  /\ \E n \in ResponseLengths(IntervalMap(fetches[f].timeframe).limit) : FetchSucceeds(f, n)

\* C21: the request of a history load is (1m, 60) for 1h, (5m, 288) for 24h,
\* (1h, 168) for 7d, (4h, 180) for 30d and (1m, 60) for any other timeframe,
\* and a successful load leaves at most that many bars, in ascending order of
\* timestamp (at most 288 for 24h).
C21_RequestOfTimeframe ==
  /\ [](/\ \A f \in InFlight :
             LET request == IntervalMap(fetches[f].timeframe)
             IN <<fetches[f].timeframe, request.interval, request.limit>>
                  \in {<<"1h", "1m", 60>>, <<"24h", "5m", 288>>,
                       <<"7d", "1h", 168>>, <<"30d", "4h", 180>>}
        /\ \A tf \in OtherTimeframes :
             IntervalMap(tf) = [interval |-> "1m", limit |-> 60])
  /\ [][\A f \in FetchIds :
          SuccessCompletes(f)
            => /\ SortedByTimestamp(chartData')
               /\ fetches[f].timeframe = "1h" => Len(chartData') <= 60
               /\ fetches[f].timeframe = "24h" => Len(chartData') <= 288
               /\ fetches[f].timeframe = "7d" => Len(chartData') <= 168
               /\ fetches[f].timeframe = "30d" => Len(chartData') <= 180]_vars

\* the 24h history has been loaded: 288 bars
C21_Witness ==
  /\ viewOpen
  /\ timeframe = "24h"
  /\ ~loading
  /\ Len(chartData) = 288
  /\ chartData[1].origin = Origin("history", symbol, "24h")
  /\ chartData[1].timestamp < chartData[288].timestamp

\* the stream effect runs in the step: the view is opened, or rendered with
\* another symbol or timeframe
StreamEffectRuns ==
  \/ ~viewOpen /\ viewOpen'
  \/ symbol' # symbol
  \/ timeframe' # timeframe

\* C22: the per-symbol stream is never connected again by itself: a connection
\* is created only when the view is opened or its symbol or timeframe changes,
\* and while the view has no live connection no bar is appended.
C22_NoChartReconnect ==
  [][/\ (\E w \in ChartSocketIds :
            chartSockets'[w].state = "CONNECTING" /\ chartSockets[w].state # "CONNECTING")
          => StreamEffectRuns
     /\ (LiveChartSockets = {} /\ ~StreamEffectRuns)
          => (LiveChartSockets' = {} /\ liveAppends' = liveAppends)]_vars

\* the stream of the open view appended a bar and then closed; the view is
\* left without a connection
C22_Witness ==
  /\ viewOpen
  /\ ~loading
  /\ liveAppends = 1
  /\ chartWsRef # 0
  /\ chartSockets[chartWsRef].state = "CLOSED"
  /\ LiveChartSockets = {}

\* the bars a live append put into the sequence
LiveBars ==
  {i \in 1..Len(chartData) :
     \E sym \in ChartSymbols, tf \in Timeframes : chartData[i].origin = Origin("live", sym, tf)}

\* C27: a live append on the per-symbol stream changes only the bar sequence:
\* loading and error are unchanged, so a chart in the error state stays in the
\* error state while bars are appended, and the bars appended while a history
\* fetch is in flight are all replaced when that fetch succeeds.
C27_LiveAppendChangesBarsOnly ==
  /\ [][liveAppends' # liveAppends =>
          /\ loading' = loading
          /\ error' = error
          /\ Len(chartData') >= 1
          /\ UNCHANGED <<viewOpen, symbol, currentPrice, timeframe, chartWsRef,
                         chartSockets, fetches>>]_vars
  /\ [][\A f \in FetchIds :
          SuccessCompletes(f) =>
            \A i \in 1..Len(chartData') :
              chartData'[i].origin = Origin("history", fetches[f].symbol, fetches[f].timeframe)]_vars

\* the load failed with no current price, and the stream then appended a bar:
\* the chart shows the error and holds the bar
C27_Witness ==
  /\ viewOpen
  /\ error
  /\ ~loading
  /\ liveAppends = 1
  /\ LiveBars # {}

\* a bar was appended during a fetch, and the fetch has replaced it
C27_ReplacedBySuccess ==
  /\ viewOpen
  /\ ~loading
  /\ liveAppends = 1
  /\ chartData # << >>
  /\ LiveBars = {}

\* C30: the synthesized placeholder series is a chained walk: its 60
\* timestamps ascend in steps of 60000 ms and end at the time of synthesis,
\* the first bar opens at the price the loader was called with, every later
\* bar opens at the close of the bar before it, and in every bar
\* low <= min(open, close) and max(open, close) <= high.
C30_PlaceholderIsChainedWalk ==
  [][\A f \in FetchIds :
       (FailureCompletes(f) /\ Truthy(fetches[f].currentPrice)) =>
         LET bars == chartData' IN
         /\ Len(bars) = 60
         /\ bars[60].timestamp = now
         /\ \A k \in 1..59 : bars[k + 1].timestamp = bars[k].timestamp + PlaceholderStepMs
         /\ bars[1].open = fetches[f].currentPrice[1]
         /\ \A k \in 1..59 : bars[k + 1].open = bars[k].close
         /\ \A k \in 1..60 :
              /\ bars[k].low <= Min(bars[k].open, bars[k].close)
              /\ bars[k].open <= bars[k].high
              /\ bars[k].close <= bars[k].high]_vars

\* a failed load left the placeholder: 60 bars, the first opening at the price
\* 1, the walk having moved away from it
C30_Witness ==
  /\ viewOpen
  /\ ~loading
  /\ ~error
  /\ Len(chartData) = 60
  /\ chartData[1].origin = Origin("placeholder", symbol, timeframe)
  /\ chartData[1].open = Unit
  /\ chartData[60].open # Unit
  /\ chartData[60].low < chartData[60].high

====
